---- MODULE Spec2Model ----
(***************************************************************************)
(* Mass Spring Softbody (2D): the fixed-timestep driver (checkTime), the   *)
(* physics step (update) and the integrator (IntegrateLinear) of main.cpp, *)
(* with the SoftBody grid built by SoftBody::SoftBody.                     *)
(*                                                                         *)
(* Numbers.  A float is modelled as a fixed-point number: the integer n    *)
(* stands for n / Scale, and every float multiplication, division and      *)
(* square root rounds its exact result to the nearest lattice point, as    *)
(* IEEE arithmetic rounds to the nearest float.  The result of normalizing *)
(* the zero vector (0 * inf in glm) is NaN; NaN is carried by a flag on    *)
(* the vector and propagates through every operation.                      *)
(* The doubles of checkTime (time, timebase, accumulator, physicsStep)     *)
(* are counted in milliseconds.  The unit of time of the floats is one     *)
(* physics step, so that the float dt = (float)physicsStep is 1.0.         *)
(***************************************************************************)
EXTENDS Integers, Sequences, FiniteSets

VARIABLES
    body,           \* struct SoftBody* body (with its grid of RigidBody)
    lattice,        \* struct Mesh* lattice: the vertex array, and what was stored past its end
    time,           \* double time
    timebase,       \* double timebase
    accumulator,    \* double accumulator
    pc,             \* where the program is: "main", "while", "force", "integrate", "crashed"
    i, j,           \* the loop counters of update
    dt,             \* the parameter dt of update
    externalForce,  \* the local externalForce of update
    frames,         \* history: calls of checkTime so far
    updates,        \* history: calls of update so far
    stepsInFrame,   \* history: calls of update made by the current call of checkTime
    presses,        \* history: updates so far that sampled a pressed mouse button
    forced,         \* history: cells whose force the current update has accumulated
    integrated,     \* history: cells the current update has integrated
    stores,         \* history: the vertex indices the current update has written, in order
    called          \* history: the arguments of the latest call of IntegrateLinear

vars == <<body, lattice, time, timebase, accumulator, pc, i, j, dt, externalForce,
          frames, updates, stepsInFrame, presses, forced, integrated, stores, called>>

(***************************************************************************)
(* Bounds of the exploration: the grid has at most MaxSub rows and columns, *)
(* checkTime is called at most MaxFrames times, a mouse button is pressed  *)
(* only in the first PressWindow calls of update, a run in which a button  *)
(* was pressed is followed for MaxUpdates calls of update and a run with   *)
(* no button pressed for MaxQuiet calls.                                   *)
(***************************************************************************)
MaxSub == 3
MaxFrames == 2
PressWindow == 1
MaxUpdates == 3
MaxQuiet == 41

(***************************************************************************)
(* Fixed-point floats.                                                     *)
(***************************************************************************)
Scale == 8

physicsStep == 12

MaxFrameDt == 250

Abs(n) == IF n >= 0 THEN n ELSE -n

\* n / d rounded to the nearest integer, ties away from zero (d > 0)
Round(n, d) == IF n >= 0 THEN (2 * n + d) \div (2 * d) ELSE -((2 * (-n) + d) \div (2 * d))

\* the product of two floats
Mul(a, b) == Round(a * b, Scale)

\* the square root of the integer n, rounded to the nearest integer
Sqrt(n) ==
    LET f == CHOOSE r \in 0..n : r * r <= n /\ (r + 1) * (r + 1) > n
    IN  IF n - f * f > f THEN f + 1 ELSE f

\* (float) of a double counted in milliseconds: in units of one physics step
ToFloat(ms) == Round(ms * Scale, physicsStep)

(***************************************************************************)
(* glm::vec3                                                               *)
(***************************************************************************)
Vec3(x, y, z) == [x |-> x, y |-> y, z |-> z, nan |-> FALSE]

NaN3 == [x |-> 0, y |-> 0, z |-> 0, nan |-> TRUE]

Zero3 == Vec3(0, 0, 0)

Add(a, b) == IF a.nan \/ b.nan THEN NaN3 ELSE Vec3(a.x + b.x, a.y + b.y, a.z + b.z)

Sub(a, b) == IF a.nan \/ b.nan THEN NaN3 ELSE Vec3(a.x - b.x, a.y - b.y, a.z - b.z)

\* float * vec3
ScalarMul(s, v) == IF v.nan THEN NaN3 ELSE Vec3(Mul(s, v.x), Mul(s, v.y), Mul(s, v.z))

Dot(a, b) == a.x * b.x + a.y * b.y + a.z * b.z

\* glm::length of a vector that is not NaN
Length(v) == Sqrt(Dot(v, v))

\* glm::normalize: v * inversesqrt(dot(v, v)); the zero vector gives 0 * inf = NaN
Normalize(v) ==
    IF v.nan \/ Dot(v, v) = 0 THEN NaN3
    ELSE Vec3(Round(v.x * Scale, Length(v)), Round(v.y * Scale, Length(v)),
              Round(v.z * Scale, Length(v)))

(***************************************************************************)
(* struct RigidBody                                                        *)
(***************************************************************************)
RigidBody(position, velocity, acceleration, mass) ==
    [position |-> position, velocity |-> velocity, acceleration |-> acceleration,
     netForce |-> Zero3, netImpulse |-> Zero3, inverseMass |-> Round(Scale * Scale, mass)]

(***************************************************************************)
(* struct SoftBody                                                         *)
(***************************************************************************)
Cells(b) == (0..(b.subdivisionsY - 1)) \X (0..(b.subdivisionsX - 1))

\* mutant: the two rest lengths are exchanged
SoftBodyRestsSwapped(width, height, subX, subY, coeff, damp) ==
    LET startWidth == -Round(width, 2)
        widthStep == Round(width, subX)
        startHeight == -Round(height, 2)
        heightStep == Round(height, subY)
    IN  [subdivisionsX |-> subX, subdivisionsY |-> subY,
         numRigidBodies |-> subX * subY,
         coefficient |-> coeff, dampening |-> damp,
         restWidth |-> heightStep, restHeight |-> widthStep,
         bodies |-> [c \in (0..(subY - 1)) \X (0..(subX - 1)) |->
                        RigidBody(Vec3(startWidth + widthStep * c[2],
                                       startHeight + heightStep * c[1], 0),
                                  Zero3, Zero3, Scale)]]

SoftBody(width, height, subX, subY, coeff, damp) ==
    LET startWidth == -Round(width, 2)
        widthStep == Round(width, subX)
        startHeight == -Round(height, 2)
        heightStep == Round(height, subY)
    IN  [subdivisionsX |-> subX, subdivisionsY |-> subY,
         numRigidBodies |-> subX * subY,
         coefficient |-> coeff, dampening |-> damp,
         restWidth |-> widthStep, restHeight |-> heightStep,
         bodies |-> [c \in (0..(subY - 1)) \X (0..(subX - 1)) |->
                        RigidBody(Vec3(startWidth + widthStep * c[2],
                                       startHeight + heightStep * c[1], 0),
                                  Zero3, Zero3, Scale)]]

(***************************************************************************)
(* struct Mesh: the vertex array the step writes positions to.  A store    *)
(* past the end of the array is undefined behaviour: it either lands in    *)
(* the heap beyond the array (recorded in overrun) or ends the process.    *)
(***************************************************************************)
Mesh(subX, subY) ==
    [numVertices |-> subX * subY,
     vertices |-> [n \in 0..(subX * subY - 1) |->
                      Vec3(Round(Scale * (n % subX), subX), Round(Scale * (n \div subX), subY), 0)],
     overrun |-> {}]

InMesh(m, numVertex) == numVertex \in 0..(m.numVertices - 1)

StoreVertex(m, numVertex, position) ==
    IF InMesh(m, numVertex)
    THEN [m EXCEPT !.vertices[numVertex] = position]
    ELSE [m EXCEPT !.overrun = @ \cup {numVertex}]

(***************************************************************************)
(* IntegrateLinear(dt, body): the body after the call                      *)
(***************************************************************************)
\* mutant: the position is advanced with the velocity of after the step
IntegrateLinearVelocityFirst(t, rb) ==
    LET acceleration == ScalarMul(rb.inverseMass, rb.netForce)
        velocity == Add(rb.velocity,
                        Add(ScalarMul(t, acceleration),
                            ScalarMul(rb.inverseMass, rb.netImpulse)))
        v0dT == ScalarMul(t, velocity)
        aT2 == ScalarMul(Mul(t, t), ScalarMul(Scale \div 2, acceleration))
    IN  [rb EXCEPT !.acceleration = acceleration,
                   !.position = Add(rb.position, Add(v0dT, aT2)),
                   !.velocity = velocity,
                   !.netForce = Zero3,
                   !.netImpulse = Zero3]

\* mutant: the net force is not zeroed after the integration
IntegrateLinearKeepsForce(t, rb) ==
    LET acceleration == ScalarMul(rb.inverseMass, rb.netForce)
        v0dT == ScalarMul(t, rb.velocity)
        aT2 == ScalarMul(Mul(t, t), ScalarMul(Scale \div 2, acceleration))
    IN  [rb EXCEPT !.acceleration = acceleration,
                   !.position = Add(rb.position, Add(v0dT, aT2)),
                   !.velocity = Add(rb.velocity,
                                    Add(ScalarMul(t, acceleration),
                                        ScalarMul(rb.inverseMass, rb.netImpulse))),
                   !.netImpulse = Zero3]

IntegrateLinear(t, rb) ==
    LET acceleration == ScalarMul(rb.inverseMass, rb.netForce)
        v0dT == ScalarMul(t, rb.velocity)
        aT2 == ScalarMul(Mul(t, t), ScalarMul(Scale \div 2, acceleration))
    IN  [rb EXCEPT !.acceleration = acceleration,
                   !.position = Add(rb.position, Add(v0dT, aT2)),
                   !.velocity = Add(rb.velocity,
                                    Add(ScalarMul(t, acceleration),
                                        ScalarMul(rb.inverseMass, rb.netImpulse))),
                   !.netForce = Zero3,
                   !.netImpulse = Zero3]

(***************************************************************************)
(* update(dt): the external force sampled from the keyboard and the mouse  *)
(***************************************************************************)
SampleExternalForce(shift, left, right) ==
    LET f == IF right THEN -(2 * Scale) ELSE IF left THEN 2 * Scale ELSE 0
    IN  IF shift THEN Vec3(0, f, 0) ELSE Vec3(f, 0, 0)

(***************************************************************************)
(* update(dt): the force one spring puts on the body self, with the        *)
(* dampening term the code adds with it                                    *)
(***************************************************************************)
HookeForce(b, self, neighbour, rest) ==
    LET displacement == Sub(neighbour.position, self.position)
        direction == Normalize(displacement)
    IN  IF direction.nan THEN NaN3
        ELSE ScalarMul(Mul(b.coefficient, Length(displacement) - rest), direction)

\* mutant: the spring coefficient is used as dampening constant
DampeningByCoefficient(b, self, neighbour) == ScalarMul(b.coefficient, self.velocity)

\* mutant: the velocity of the neighbour is dampened
DampeningOfNeighbour(b, self, neighbour) == ScalarMul(b.dampening, neighbour.velocity)

DampeningForce(b, self, neighbour) == ScalarMul(b.dampening, self.velocity)

SpringForce(b, self, neighbour, rest) ==
    Sub(HookeForce(b, self, neighbour, rest), DampeningForce(b, self, neighbour))

\* mutant: every row receives externalForce
OnEveryRow(b, row) == row >= 0

\* the row whose cells receive externalForce
OnForcedRow(b, row) == row = 0

\* the netForce of cell (row, col) after the body of the force loop
AccumulateForce(b, row, col, ext) ==
    LET self == b.bodies[<<row, col>>]
        f0 == self.netForce
        f1 == IF row > 0
              THEN Add(f0, SpringForce(b, self, b.bodies[<<row - 1, col>>], b.restHeight))
              ELSE f0
        f2 == IF row < b.subdivisionsY - 1
              THEN Add(f1, SpringForce(b, self, b.bodies[<<row + 1, col>>], b.restHeight))
              ELSE f1
        f3 == IF col > 0
              THEN Add(f2, SpringForce(b, self, b.bodies[<<row, col - 1>>], b.restWidth))
              ELSE f2
        f4 == IF col < b.subdivisionsX - 1
              THEN Add(f3, SpringForce(b, self, b.bodies[<<row, col + 1>>], b.restWidth))
              ELSE f3
    IN  IF OnForcedRow(b, row) THEN Add(f4, ext) ELSE f4

\* the vertex that the integration loop writes the position of cell (row, col) to
NumVertex(b, row, col) == row * b.subdivisionsY + col

\* mutant: the frame delta is not limited
UnlimitedDt(d) == d

\* the frame delta that checkTime adds to the accumulator
LimitDt(d) == IF d > MaxFrameDt THEN MaxFrameDt ELSE d

(***************************************************************************)
(* The program                                                             *)
(***************************************************************************)
Sizes == {2 * Scale}
Coefficients == {Scale}
Dampenings == {Scale \div 2}
FrameDeltas == {physicsStep \div 2, MaxFrameDt + 2 * physicsStep}

Init ==
    /\ \E width \in Sizes, height \in Sizes, subX \in 1..MaxSub, subY \in 1..MaxSub,
          coeff \in Coefficients, damp \in Dampenings :
          /\ body = SoftBody(width, height, subX, subY, coeff, damp)
          /\ lattice = Mesh(subX, subY)
    /\ time = 0
    /\ timebase = 0
    /\ accumulator = 0
    /\ pc = "main"
    /\ i = 0
    /\ j = 0
    /\ dt = 0
    /\ externalForce = Zero3
    /\ frames = 0
    /\ updates = 0
    /\ stepsInFrame = 0
    /\ presses = 0
    /\ forced = {}
    /\ integrated = {}
    /\ stores = <<>>
    /\ called = [cell |-> <<0, 0>>, dt |-> 0, body |-> body.bodies[<<0, 0>>]]

\* checkTime up to its while loop, delta after the previous call
CheckTime(delta) ==
    /\ pc = "main"
    /\ frames < MaxFrames
    /\ time' = time + delta
    /\ frames' = frames + 1
    /\ stepsInFrame' = 0
    /\ IF time' - timebase > physicsStep
       THEN /\ timebase' = time'
            /\ accumulator' = accumulator + LimitDt(time' - timebase)
            /\ pc' = "while"
       ELSE UNCHANGED <<timebase, accumulator, pc>>
    /\ UNCHANGED <<body, lattice, i, j, dt, externalForce, updates, presses,
                   forced, integrated, stores, called>>

\* the while loop of checkTime calls update(physicsStep), which samples the input
CallUpdate(shift, left, right) ==
    /\ pc = "while"
    /\ accumulator >= physicsStep
    /\ updates < (IF presses > 0 THEN MaxUpdates ELSE MaxQuiet)
    /\ (left \/ right) => updates < PressWindow
    /\ dt' = ToFloat(physicsStep)
    /\ externalForce' = SampleExternalForce(shift, left, right)
    /\ presses' = (IF left \/ right THEN presses + 1 ELSE presses)
    /\ updates' = updates + 1
    /\ stepsInFrame' = stepsInFrame + 1
    /\ forced' = {}
    /\ integrated' = {}
    /\ stores' = <<>>
    /\ pc' = "force"
    /\ i' = 0
    /\ j' = 0
    /\ UNCHANGED <<body, lattice, time, timebase, accumulator, frames, called>>

\* the while loop of checkTime ends
ExitWhile ==
    /\ pc = "while"
    /\ accumulator < physicsStep
    /\ pc' = "main"
    /\ UNCHANGED <<body, lattice, time, timebase, accumulator, i, j, dt, externalForce,
                   frames, updates, stepsInFrame, presses, forced, integrated, stores, called>>

\* mutant: a single loop that integrates each cell right after its force
ForceCellThenIntegrate ==
    /\ pc = "force"
    /\ LET f == AccumulateForce(body, i, j, externalForce)
           rb == IntegrateLinear(dt, [body.bodies[<<i, j>>] EXCEPT !.netForce = f])
       IN  body' = [body EXCEPT !.bodies[<<i, j>>] = rb]
    /\ forced' = forced \cup {<<i, j>>}
    /\ integrated' = integrated \cup {<<i, j>>}
    /\ IF j < body.subdivisionsX - 1
       THEN j' = j + 1 /\ UNCHANGED <<i, pc>>
       ELSE IF i < body.subdivisionsY - 1
            THEN i' = i + 1 /\ j' = 0 /\ UNCHANGED pc
            ELSE i' = 0 /\ j' = 0 /\ pc' = "integrate"
    /\ LET f == AccumulateForce(body, i, j, externalForce)
       IN  called' = [cell |-> <<i, j>>, dt |-> dt,
                      body |-> [body.bodies[<<i, j>>] EXCEPT !.netForce = f]]
    /\ UNCHANGED <<lattice, time, timebase, accumulator, dt, externalForce,
                   frames, updates, stepsInFrame, presses, stores>>

\* one pass through the body of the force loop of update, for cell (i, j)
ForceCell ==
    /\ pc = "force"
    /\ body' = [body EXCEPT !.bodies[<<i, j>>].netForce =
                                AccumulateForce(body, i, j, externalForce)]
    /\ forced' = forced \cup {<<i, j>>}
    /\ IF j < body.subdivisionsX - 1
       THEN j' = j + 1 /\ UNCHANGED <<i, pc>>
       ELSE IF i < body.subdivisionsY - 1
            THEN i' = i + 1 /\ j' = 0 /\ UNCHANGED pc
            ELSE i' = 0 /\ j' = 0 /\ pc' = "integrate"
    /\ UNCHANGED <<lattice, time, timebase, accumulator, dt, externalForce,
                   frames, updates, stepsInFrame, presses, integrated, stores, called>>

\* one pass through the body of the integration loop of update, for cell (i, j);
\* after the last cell update returns and checkTime takes the step off the accumulator
IntegrateCell ==
    /\ pc = "integrate"
    /\ LET rb == IntegrateLinear(dt, body.bodies[<<i, j>>])
       IN  /\ body' = [body EXCEPT !.bodies[<<i, j>>] = rb]
           /\ lattice' = StoreVertex(lattice, NumVertex(body, i, j), rb.position)
    /\ stores' = Append(stores, NumVertex(body, i, j))
    /\ called' = [cell |-> <<i, j>>, dt |-> dt, body |-> body.bodies[<<i, j>>]]
    /\ integrated' = integrated \cup {<<i, j>>}
    /\ IF j < body.subdivisionsX - 1
       THEN j' = j + 1 /\ UNCHANGED <<i, pc, accumulator>>
       ELSE IF i < body.subdivisionsY - 1
            THEN i' = i + 1 /\ j' = 0 /\ UNCHANGED <<pc, accumulator>>
            ELSE /\ i' = 0
                 /\ j' = 0
                 /\ pc' = "while"
                 /\ accumulator' = accumulator - physicsStep
    /\ UNCHANGED <<time, timebase, dt, externalForce, frames, updates, stepsInFrame,
                   presses, forced>>

\* the store past the end of the vertex array ends the process
Crash ==
    /\ pc = "integrate"
    /\ ~InMesh(lattice, NumVertex(body, i, j))
    /\ pc' = "crashed"
    /\ UNCHANGED <<body, lattice, time, timebase, accumulator, i, j, dt, externalForce,
                   frames, updates, stepsInFrame, presses, forced, integrated, stores, called>>

Next ==
    \/ \E delta \in FrameDeltas : CheckTime(delta)
    \/ \E shift \in BOOLEAN, left \in BOOLEAN, right \in BOOLEAN : CallUpdate(shift, left, right)
    \/ ExitWhile
    \/ ForceCell
    \/ IntegrateCell
    \/ Crash

Spec == Init /\ [][Next]_vars

(***************************************************************************)
(* IntegrateLinear on its own: one call on a body and a timestep drawn     *)
(* from the sets below, as the integration loop of update makes it.        *)
(***************************************************************************)
TestVectors == {Zero3, Vec3(Scale, 0, 0), Vec3(-3, 5, 0)}
TestForces == TestVectors \cup {NaN3}
TestInverseMasses == {0, Scale \div 2, Scale, 2 * Scale}
TestSteps == {Scale \div 2, Scale, 2 * Scale}

InitIntegrate ==
    /\ \E position \in TestVectors, velocity \in TestVectors, netForce \in TestForces,
          netImpulse \in TestVectors, inverseMass \in TestInverseMasses :
          body = [SoftBody(2 * Scale, 2 * Scale, 1, 1, Scale, Scale \div 2)
                    EXCEPT !.bodies[<<0, 0>>] =
                              [position |-> position, velocity |-> velocity,
                               acceleration |-> Zero3, netForce |-> netForce,
                               netImpulse |-> netImpulse, inverseMass |-> inverseMass]]
    /\ lattice = Mesh(1, 1)
    /\ dt \in TestSteps
    /\ time = physicsStep + 1
    /\ timebase = physicsStep + 1
    /\ accumulator = physicsStep + 1
    /\ pc = "integrate"
    /\ i = 0
    /\ j = 0
    /\ externalForce = Zero3
    /\ frames = 1
    /\ updates = 1
    /\ stepsInFrame = 1
    /\ presses = 0
    /\ forced = {<<0, 0>>}
    /\ integrated = {}
    /\ stores = <<>>
    /\ called = [cell |-> <<0, 0>>, dt |-> 0, body |-> body.bodies[<<0, 0>>]]

NextIntegrate == IntegrateCell

SpecIntegrate == InitIntegrate /\ [][NextIntegrate]_vars

(***************************************************************************)
(* Properties                                                              *)
(***************************************************************************)
Row(c) == c[1]
Col(c) == c[2]
BodyAt(c) == body.bodies[c]
InUpdate == pc \in {"force", "integrate"}

\* the force loop of the running update has ended and its integration loop not begun
ForcesAccumulated == pc = "integrate" /\ integrated = {}

\* C1: within one call of update no body is integrated before the force loop has
\* visited every cell of the grid, so every force of the step is accumulated while
\* no body has yet been advanced by the step.
C1_ForcesBeforeIntegration ==
    /\ integrated # {} => forced = Cells(body)
    /\ pc = "force" => integrated = {}

\* a body of a grid of several cells has been integrated, in a step with a force applied
C1_Witness ==
    /\ pc = "integrate"
    /\ integrated # {}
    /\ integrated # Cells(body)
    /\ externalForce # Zero3

\* C2: after every call of update, and from construction on, every cell's netForce
\* and netImpulse are the zero vector; a cell the force loop has not reached yet in the
\* running step still has both zero, as has every cell already integrated.
C2_AccumulatorsReset ==
    /\ pc \in {"main", "while"} =>
          \A c \in Cells(body) : BodyAt(c).netForce = Zero3 /\ BodyAt(c).netImpulse = Zero3
    /\ InUpdate =>
          \A c \in (Cells(body) \ forced) \cup integrated :
             BodyAt(c).netForce = Zero3 /\ BodyAt(c).netImpulse = Zero3

\* an update that applied a force has returned, and the bodies are moving
C2_Witness ==
    /\ pc = "while"
    /\ updates > 0
    /\ externalForce # Zero3
    /\ \E c \in Cells(body) : BodyAt(c).velocity # Zero3

\* the net force of cell c once the force loop has passed it, were externalForce zero
InternalForce(c) ==
    AccumulateForce([body EXCEPT !.bodies[c].netForce = Zero3], Row(c), Col(c), Zero3)

\* C3: in one step externalForce is added, once, to the net force of the cells of row 0
\* and of no other cell: a cell of a row i > 0 has the net force it would have with
\* externalForce zero.
C3_ExternalForceOnRowZeroOnly ==
    ForcesAccumulated =>
       \A c \in forced :
          BodyAt(c).netForce =
             IF Row(c) = 0 THEN Add(InternalForce(c), externalForce) ELSE InternalForce(c)

\* a force is applied and the force loop has passed the cells of a row above row 0
C3_Witness ==
    /\ ForcesAccumulated
    /\ externalForce # Zero3
    /\ \E c \in forced : Row(c) > 0

\* the index of cell c in row-major order
RowMajor(c) == Row(c) * body.subdivisionsX + Col(c)

\* the cells next to c in the grid, and the rest length of the spring between two of them
Neighbours(c) ==
    {d \in Cells(body) : Abs(Row(d) - Row(c)) + Abs(Col(d) - Col(c)) = 1}
RestLength(c, d) == IF Col(c) = Col(d) THEN body.restHeight ELSE body.restWidth

\* C4: for every grid size, each step writes the new position of every cell to its own
\* mesh vertex: the cells, taken in row-major order, are stored at the vertex indices
\* 0, 1, ..., rows*columns - 1, each index once and none outside the array, and after
\* the step the vertex of each cell holds that cell's position.
C4_OneVertexPerCell ==
    (pc \in {"main", "while"} /\ updates > 0) =>
       /\ stores = [n \in 1..body.numRigidBodies |-> n - 1]
       /\ lattice.overrun = {}
       /\ \A c \in Cells(body) : lattice.vertices[RowMajor(c)] = BodyAt(c).position

C6_NoUndefinedValue ==
    \A c \in Cells(body) :
       ~BodyAt(c).netForce.nan /\ ~BodyAt(c).position.nan /\ ~BodyAt(c).velocity.nan

Neg(v) == Sub(Zero3, v)

\* n times the vector v
Times(n, v) == IF n = 0 THEN Zero3 ELSE IF v.nan THEN NaN3 ELSE Vec3(n * v.x, n * v.y, n * v.z)

\* the sum of the Hooke forces that the springs to the cells of S put on cell c
RECURSIVE SumOfHookeForces(_, _)
SumOfHookeForces(c, S) ==
    IF S = {} THEN Zero3
    ELSE LET d == CHOOSE e \in S : TRUE
         IN  Add(HookeForce(body, BodyAt(c), BodyAt(d), RestLength(c, d)),
                 SumOfHookeForces(c, S \ {d}))

\* cell c moves, no spring pulls or pushes it, and no external force acts on it
FreeOfSpringForce(c) ==
    /\ \A d \in Neighbours(c) :
          HookeForce(body, BodyAt(c), BodyAt(d), RestLength(c, d)) = Zero3
    /\ BodyAt(c).velocity \notin {Zero3, NaN3}
    /\ Row(c) = 0 => externalForce = Zero3

\* C7, as stated: a moving cell with zero spring force and no external force
\* accumulates the net force -dampening * velocity in one step.
C7_DampeningAppliedOnce ==
    ForcesAccumulated =>
       \A c \in forced :
          FreeOfSpringForce(c) =>
             BodyAt(c).netForce = Neg(ScalarMul(body.dampening, BodyAt(c).velocity))

\* C7, amended: such a cell accumulates -n * dampening * velocity, n the number of its
\* neighbours in the grid; the net force is zero for the single cell of a 1x1 grid.
C7_DampeningPerNeighbourAtRest ==
    ForcesAccumulated =>
       \A c \in forced :
          FreeOfSpringForce(c) =>
             BodyAt(c).netForce =
                Neg(Times(Cardinality(Neighbours(c)),
                          ScalarMul(body.dampening, BodyAt(c).velocity)))

\* a moving cell with two neighbours, both at rest length, has its force accumulated
C7_Witness ==
    /\ ForcesAccumulated
    /\ \E c \in forced : FreeOfSpringForce(c) /\ Cardinality(Neighbours(c)) = 2

\* C9: in one step the term -velocity * dampening enters a cell's net force once per
\* neighbour the cell has in the grid: the net force is the sum of the Hooke forces of
\* its springs, plus -n * dampening * velocity for its n neighbours (2 in a corner,
\* 3 on an edge, 4 inside, 0 in a 1x1 grid), plus externalForce in row 0.
C9_DampeningOncePerNeighbour ==
    ForcesAccumulated =>
       \A c \in forced :
          BodyAt(c).netForce =
             Add(Add(SumOfHookeForces(c, Neighbours(c)),
                     Neg(Times(Cardinality(Neighbours(c)),
                               ScalarMul(body.dampening, BodyAt(c).velocity)))),
                 IF Row(c) = 0 THEN externalForce ELSE Zero3)

\* a moving interior cell, with four neighbours and a spring off its rest length
C9_Witness ==
    /\ ForcesAccumulated
    /\ \E c \in forced :
          /\ Cardinality(Neighbours(c)) = 4
          /\ BodyAt(c).velocity \notin {Zero3, NaN3}
          /\ SumOfHookeForces(c, Neighbours(c)) \notin {Zero3, NaN3}

\* C8: IntegrateLinear(dt, body), with a = inverseMass * netForce, sets
\* position' = position + velocity*dt + 0.5*a*dt^2 with the velocity of before the
\* call, whatever the impulse, sets velocity' = velocity + a*dt + inverseMass *
\* netImpulse, which is velocity + a*dt when the impulse is zero, and leaves
\* inverseMass unchanged.
C8_IntegrateLinear ==
    (integrated # {} /\ pc # "force") =>
       LET in == called.body
           out == BodyAt(called.cell)
           a == ScalarMul(in.inverseMass, in.netForce)
           half == Scale \div 2
       IN  /\ out.position =
                 Add(in.position,
                     Add(ScalarMul(called.dt, in.velocity),
                         ScalarMul(Mul(called.dt, called.dt), ScalarMul(half, a))))
           /\ out.velocity =
                 Add(Add(in.velocity, ScalarMul(called.dt, a)),
                     ScalarMul(in.inverseMass, in.netImpulse))
           /\ in.netImpulse = Zero3 =>
                 out.velocity = Add(in.velocity, ScalarMul(called.dt, a))
           /\ out.inverseMass = in.inverseMass

\* a moving body with a force and an impulse on it has been integrated
C8_Witness ==
    /\ integrated # {}
    /\ pc = "while"
    /\ called.body.inverseMass > 0
    /\ called.body.velocity \notin {Zero3, NaN3}
    /\ called.body.netForce \notin {Zero3, NaN3}
    /\ called.body.netImpulse \notin {Zero3, NaN3}
    /\ called.dt # Scale

\* the number of physics steps that fit in a limited frame delta and a remainder
MaxStepsPerFrame == (MaxFrameDt + physicsStep) \div physicsStep

\* C10: checkTime calls update only with dt = physicsStep, a frame adds at most 0.25
\* to an accumulator below physicsStep, the step loop leaves 0 <= accumulator <
\* physicsStep, and no frame runs more than floor((0.25 + physicsStep) / physicsStep)
\* physics steps, however large its delta.
C10_FixedTimestep ==
    /\ InUpdate => dt = ToFloat(physicsStep)
    /\ accumulator >= 0
    /\ pc = "main" => accumulator < physicsStep
    /\ pc = "while" => accumulator + physicsStep * stepsInFrame < physicsStep + MaxFrameDt
    /\ stepsInFrame <= MaxStepsPerFrame

\* a frame with a delta above the limit has run as many steps as a frame can
C10_Witness ==
    /\ pc = "main"
    /\ stepsInFrame = MaxStepsPerFrame
    /\ time - timebase = 0
    /\ accumulator < physicsStep

====
